---- MODULE Spec2Model ----
(***************************************************************************)
(* A model of the chat route (app/(chat)/api/chat/route.ts), the message   *)
(* utilities (lib/utils.ts), the persistence facade (lib/db/queries.ts),   *)
(* the chat page, the server actions and the key masking of the model      *)
(* factory (lib/ai/models.ts) of the chatbot.                              *)
(*                                                                         *)
(* Text is a sequence of characters; identifiers are strings, the ones     *)
(* generateUUID returns being numbered by the counter nextId.              *)
(***************************************************************************)
EXTENDS Integers, Sequences, FiniteSets, TLC

\* ------------------------------------------------------------------ bounds
\* text fragments the chat model may emit in one turn
MaxDeltas == 1
\* tool calls the chat model may make in one turn
MaxCalls == 1
\* deltas the document content streams of one turn may deliver
MaxParts == 1
\* elements the suggestion streams of one turn may deliver
MaxElements == 1

\* ------------------------------------------------------- program constants
\* streamText({ maxSteps: 5 })
maxSteps == 5

\* ---------------------------------------------------------------- domains
NoUser == "none"
Users == {"u1", "u2"}
Empty == <<>>
\* chat ids a request may carry; SeedChat is stored at start, NewChat is not
SeedChat == "c1"
NewChat == "c2"
ChatIds == {SeedChat, NewChat}
SeedOwner == "u1"
SeedMessage == "m1"
\* document ids a tool call may carry beside the ids of stored documents
SeedDoc == "d1"
MissingDoc == "d0"
SeedTitle == <<"t">>
Titles == {<<"n">>}
Kinds == {"text", "code"}

\* DATA_STREAM_TYPES; "text" is the text part that mergeIntoDataStream
\* forwards from the chat model, "annotation" a message annotation.
DATA_STREAM_TYPES ==
    {"user-message-id", "id", "title", "kind", "clear", "text-delta",
     "code-delta", "finish", "suggestion"}

VARIABLES
    \* the persistence facade's tables
    chats, messages, votes, documents, suggestions,
    \* generateUUID's next value and the clock read by new Date()
    nextId, now,
    \* the POST request: its input, its position, its response status
    req, pc, status,
    \* the data stream of the turn: "none", "open" or "closed", and the
    \* events written to it, in write order
    channel, events,
    userMessageId,
    \* streamText: current step, whether the model is still generating the
    \* step, the text of the step, the tool calls of the turn, the response
    \* messages of the finished steps
    step, generating, stepText, calls, responseMessages,
    \* fragments emitted so far; whether an error was raised during the turn
    deltas, turnError,
    \* saveResponseMessages: the rows handed to saveMessages, the number of
    \* saveMessages calls it made
    batch, saveCalls,
    \* the DELETE request: its input, its position, its response (status, text),
    \* and the chats, messages and votes stored when it called deleteChatById
    dreq, dpc, dstatus, dbody, dbefore,
    \* a call of deleteDocumentsByIdAfterTimestamp: its arguments, its position
    ddel, ddpc,
    \* the calls of voteMessage: of each caller the arguments, the position and
    \* the vote its select found
    voting,
    \* sanitizeResponseMessages applied to responseMessages, and to its own
    \* result; the number of applications made
    once, twice, passes,
    \* createWrappedModel: the secret it is given and the text it logs
    apiKey, logged,
    \* the chat page: the request, its position, the chat it read, whether it
    \* called getMessagesByChatId, and what it rendered
    page,
    \* a call of deleteTrailingMessages: its argument, its position, the message
    \* it read
    trail,
    \* a second POST request, up to its saveUserMessage
    peer

store == <<chats, messages, votes, documents, suggestions>>
ids == <<nextId, now>>
post == <<req, pc, status, channel, events, userMessageId>>
stream == <<step, generating, stepText, calls, responseMessages, deltas, turnError>>
saving == <<batch, saveCalls>>
del == <<dreq, dpc, dstatus, dbody, dbefore>>
facade == <<ddel, ddpc, voting>>
masking == <<apiKey, logged>>
pure == <<once, twice, passes, masking>>
aside == <<page, trail, peer>>
vars == <<store, ids, post, stream, saving, del, pure, facade, aside>>

\* no page is requested, no call of deleteTrailingMessages is made, no second
\* request has arrived
NoPage == [id |-> "", user |-> "none", pc |-> "idle", chat |-> {}, fetched |-> FALSE,
           result |-> "none", shown |-> {}]
NoTrail == [id |-> "", pc |-> "idle", message |-> {}]
NoPeer == [id |-> "", user |-> "none", pc |-> "idle", status |-> 0, userMessageId |-> ""]

\* the callers of voteMessage, and a caller that has made no call
Voters == {"v1", "v2"}
NotVoting == [chatId |-> "", messageId |-> "", type |-> "up", pc |-> "idle", existing |-> {}]

\* ------------------------------------------------------- lib/utils.ts
\* generateUUID(): a value no earlier call returned
generateUUID(n) == ToString(n)

\* the instant new Date() reads; two reads of a turn are told apart
Clock == {now}

\* ------------------------------------------------------ lib/ai/models.ts
\* String.prototype.slice(0, 4) and slice(-4): the first and the last four
\* characters, or the whole text when it has fewer
SliceFirst4(text) == SubSeq(text, 1, IF Len(text) < 4 THEN Len(text) ELSE 4)
SliceLast4(text) == SubSeq(text, IF Len(text) < 4 THEN 1 ELSE Len(text) - 3, Len(text))

\* maskApiKey
maskApiKey(key) ==
    IF key = Empty THEN <<"API Key is NOT set.">>
    ELSE SliceFirst4(key) \o <<".", ".", ".">> \o SliceLast4(key)

\* logModelStatus: console.log of the label and the masked key
logModelStatus(key) == <<"API Key (masked):", " ">> \o maskApiKey(key)

\* ------------------------------------------------- lib/db/queries.ts (reads)
\* getChatById: the rows of db.select().from(chat).where(eq(chat.id, id));
\* the caller takes the first, and there is none when the set is empty
getChatById(id) == {c \in chats : c.id = id}

\* getDocumentById: the first row in descending createdAt order
getDocumentById(id) ==
    {d \in documents : d.id = id /\ \A e \in documents : e.id = id => e.createdAt <= d.createdAt}

\* getMessagesByChatId, getVotesByChatId
getMessagesByChatId(id) == {m \in messages : m.chatId = id}
getVotesByChatId(id) == {v \in votes : v.chatId = id}

\* ------------------------------------- lib/db/schema.ts (the constraints)
\* The tables' constraints: a statement whose result would break one raises
\* and changes nothing.
\* variants in which the tables have no such constraint
MessagesUnchecked(ms, cs) == TRUE
SuggestionsUnchecked(ss, ds) == TRUE

\* every message belongs to a chat that is stored
MessagesHaveChats(ms, cs) == \A m \in ms : \E c \in cs : c.id = m.chatId

\* every suggestion references a document revision that is stored
SuggestionsHaveRevisions(ss, ds) ==
    \A x \in ss : \E d \in ds : d.id = x.documentId /\ d.createdAt = x.documentCreatedAt

\* the key of a chat: its id; an insert is possible when no chat has it
ChatIdFree(id) == \A c \in chats : c.id # id

\* the composed key of a vote: its chat id and its message id
VotesHaveKey(vs) ==
    \A v \in vs, w \in vs : (v.chatId = w.chatId /\ v.messageId = w.messageId) => v = w

\* ----------------------------------------------------------- POST, prefix
\* a variant of the catch block without the 'Model not found' case
PostErrorStatusWithoutModel(message) ==
    IF message = "Unauthorized" THEN 401 ELSE 500

\* the status the catch block of POST gives an error message
PostErrorStatus(message) ==
    IF message = "Unauthorized" THEN 401
    ELSE IF message = "Model not found" THEN 404
    ELSE 500

\* POST's catch block: the request is answered with the status, nothing else moves
PostFail(message) ==
    /\ pc' = "responded"
    /\ status' = PostErrorStatus(message)

\* the requests: any caller for the stored chat, one caller for a new chat
Requests ==
    {r \in [user : Users \cup {NoUser}, id : ChatIds, modelKnown : BOOLEAN,
            hasUserMessage : BOOLEAN] : r.id = NewChat => r.user # "u2"}

\* a request arrives; request.json() reads the body or throws
PostRequest ==
    /\ pc = "idle"
    /\ \E r \in Requests :
        /\ req' = r
        /\ \/ /\ pc' = "authenticating"
              /\ UNCHANGED status
           \/ PostFail("Unexpected end of JSON input")
    /\ UNCHANGED <<store, ids, channel, events, userMessageId, stream, saving, del, pure, facade, aside>>

\* authenticateUser
PostAuthenticate ==
    /\ pc = "authenticating"
    /\ IF req.user = NoUser
       THEN PostFail("Unauthorized")
       ELSE pc' = "validating" /\ UNCHANGED status
    /\ UNCHANGED <<store, ids, req, channel, events, userMessageId, stream, saving, del, pure, facade, aside>>

\* validateModel, then getMostRecentUserMessage and the 400 of a request
\* without a user message
PostValidate ==
    /\ pc = "validating"
    /\ IF ~req.modelKnown
       THEN PostFail("Model not found")
       ELSE IF ~req.hasUserMessage
       THEN pc' = "responded" /\ status' = 400
       ELSE pc' = "loading-chat" /\ UNCHANGED status
    /\ UNCHANGED <<store, ids, req, channel, events, userMessageId, stream, saving, del, pure, facade, aside>>

\* getOrCreateChat: getChatById, which may throw
PostGetChat ==
    /\ pc = "loading-chat"
    /\ \/ /\ pc' = IF getChatById(req.id) = {} THEN "generating-title" ELSE "saving-user-message"
          /\ UNCHANGED status
       \/ PostFail("Failed to get chat by id")
    /\ UNCHANGED <<store, ids, req, channel, events, userMessageId, stream, saving, del, pure, facade, aside>>

\* getOrCreateChat: generateTitleFromUserMessage, which may throw
PostGenerateTitle ==
    /\ pc = "generating-title"
    /\ \/ pc' = "saving-chat" /\ UNCHANGED status
       \/ PostFail("Failed to generate title.")
    /\ UNCHANGED <<store, ids, req, channel, events, userMessageId, stream, saving, del, pure, facade, aside>>

\* getOrCreateChat: saveChat inserts the chat for the caller, or throws
PostSaveChat ==
    /\ pc = "saving-chat"
    /\ \/ /\ ChatIdFree(req.id)
          /\ \E t \in Clock :
              /\ chats' = chats \cup {[id |-> req.id, userId |-> req.user,
                                       visibility |-> "private", createdAt |-> t]}
              /\ now' = t + 1
          /\ pc' = "saving-user-message"
          /\ UNCHANGED status
       \/ /\ PostFail("Failed to save chat")
          /\ UNCHANGED <<chats, now>>
    /\ UNCHANGED <<messages, votes, documents, suggestions, nextId, req, channel,
                   events, userMessageId, stream, saving, del, pure, facade, aside>>

\* the content of a stored message: a string (text) or an array of parts
StringContent(text) == [isString |-> TRUE, text |-> text, parts |-> <<>>]
PartsContent(parts) == [isString |-> FALSE, text |-> Empty, parts |-> parts]

\* saveUserMessage: one saveMessages call with the user message under a fresh
\* id, or a throw
PostSaveUserMessage ==
    /\ pc = "saving-user-message"
    /\ \/ /\ \E t \in Clock :
              /\ messages' = messages \cup
                    {[id |-> generateUUID(nextId), chatId |-> req.id, role |-> "user",
                      content |-> StringContent(<<"a">>), createdAt |-> t]}
              /\ MessagesHaveChats(messages', chats)
              /\ now' = t + 1
          /\ userMessageId' = generateUUID(nextId)
          /\ nextId' = nextId + 1
          /\ pc' = "opening"
          /\ UNCHANGED status
       \/ /\ PostFail("Failed to save messages")
          /\ UNCHANGED <<messages, now, nextId, userMessageId>>
    /\ UNCHANGED <<chats, votes, documents, suggestions, req, channel, events,
                   stream, saving, del, pure, facade, aside>>

\* ------------------------------------------- POST, a second request
\* a second request arrives beside the first; it has a session, a configured
\* model and a user message
PeerRequest ==
    /\ peer.pc = "idle"
    /\ \E r \in Requests :
        /\ r.user # NoUser /\ r.modelKnown /\ r.hasUserMessage
        /\ peer' = [NoPeer EXCEPT !.id = r.id, !.user = r.user, !.pc = "loading-chat"]
    /\ UNCHANGED <<store, ids, post, stream, saving, del, pure, facade, page, trail>>

\* the catch block of POST, for the second request
PeerFail(message) ==
    peer' = [peer EXCEPT !.pc = "responded", !.status = PostErrorStatus(message)]

\* getOrCreateChat: getChatById, which may throw
PeerGetChat ==
    /\ peer.pc = "loading-chat"
    /\ \/ peer' = [peer EXCEPT !.pc = IF getChatById(peer.id) = {} THEN "generating-title"
                                       ELSE "saving-user-message"]
       \/ PeerFail("Failed to get chat by id")
    /\ UNCHANGED <<store, ids, post, stream, saving, del, pure, facade, page, trail>>

\* getOrCreateChat: generateTitleFromUserMessage, which may throw
PeerGenerateTitle ==
    /\ peer.pc = "generating-title"
    /\ \/ peer' = [peer EXCEPT !.pc = "saving-chat"]
       \/ PeerFail("Failed to generate title.")
    /\ UNCHANGED <<store, ids, post, stream, saving, del, pure, facade, page, trail>>

\* getOrCreateChat: saveChat inserts the chat for the caller, or throws
PeerSaveChat ==
    /\ peer.pc = "saving-chat"
    /\ \/ /\ ChatIdFree(peer.id)
          /\ \E t \in Clock :
              /\ chats' = chats \cup {[id |-> peer.id, userId |-> peer.user,
                                       visibility |-> "private", createdAt |-> t]}
              /\ now' = t + 1
          /\ peer' = [peer EXCEPT !.pc = "saving-user-message"]
       \/ /\ PeerFail("Failed to save chat")
          /\ UNCHANGED <<chats, now>>
    /\ UNCHANGED <<messages, votes, documents, suggestions, nextId, post, stream, saving,
                   del, pure, facade, page, trail>>

\* saveUserMessage: one saveMessages call with the user message under a fresh
\* id, or a throw; then the stream of the second request is opened
PeerSaveUserMessage ==
    /\ peer.pc = "saving-user-message"
    /\ \/ /\ \E t \in Clock :
              /\ messages' = messages \cup
                    {[id |-> generateUUID(nextId), chatId |-> peer.id, role |-> "user",
                      content |-> StringContent(<<"a">>), createdAt |-> t]}
              /\ MessagesHaveChats(messages', chats)
              /\ now' = t + 1
          /\ peer' = [peer EXCEPT !.pc = "opening", !.userMessageId = generateUUID(nextId)]
          /\ nextId' = nextId + 1
       \/ /\ PeerFail("Failed to save messages")
          /\ UNCHANGED <<messages, now, nextId>>
    /\ UNCHANGED <<chats, votes, documents, suggestions, post, stream, saving, del, pure,
                   facade, page, trail>>

\* ------------------------------------------- lib/utils.ts, sanitization
TextPart(text) == [type |-> "text", text |-> text, toolCallId |-> 0]
ToolCallPart(i) == [type |-> "tool-call", text |-> Empty, toolCallId |-> i]
ToolResultPart(i) == [type |-> "tool-result", text |-> Empty, toolCallId |-> i]

\* content.length of a message: characters of a string, parts of an array
ContentLength(content) ==
    IF content.isString THEN Len(content.text) ELSE Len(content.parts)

\* the toolCallIds of the tool-result parts of the tool messages
ToolResultIds(msgs) ==
    UNION {{msgs[k].content.parts[j].toolCallId :
                j \in {j \in DOMAIN msgs[k].content.parts :
                          msgs[k].content.parts[j].type = "tool-result"}} :
            k \in {k \in DOMAIN msgs : msgs[k].role = "tool"}}

\* a variant of the filter that keeps every tool call
KeepPartAnyCall(part, toolResultIds) ==
    IF part.type = "text" THEN Len(part.text) > 0 ELSE TRUE

\* the filter on the parts of an assistant message
KeepPart(part, toolResultIds) ==
    IF part.type = "tool-call" THEN part.toolCallId \in toolResultIds
    ELSE IF part.type = "text" THEN Len(part.text) > 0
    ELSE TRUE

SanitizeMessage(message, toolResultIds) ==
    IF message.role # "assistant" THEN message
    ELSE IF message.content.isString THEN message
    ELSE [message EXCEPT !.content.parts =
            SelectSeq(message.content.parts, LAMBDA part : KeepPart(part, toolResultIds))]

\* a variant that drops the messages without content before it filters the parts
sanitizeFilterFirst(msgs) ==
    LET toolResultIds == ToolResultIds(msgs)
        withContent == SelectSeq(msgs, LAMBDA message : ContentLength(message.content) > 0)
    IN  [k \in DOMAIN withContent |-> SanitizeMessage(withContent[k], toolResultIds)]

\* the tool result ids are collected, the parts of the assistant messages
\* filtered, and the messages left without content dropped
sanitizeResponseMessages(msgs) ==
    LET toolResultIds == ToolResultIds(msgs)
        messagesBySanitizedContent ==
            [k \in DOMAIN msgs |-> SanitizeMessage(msgs[k], toolResultIds)]
    IN  SelectSeq(messagesBySanitizedContent,
                  LAMBDA message : ContentLength(message.content) > 0)

\* ------------------------------------------------------- the data stream
\* an event: its type, the tool call that wrote it (0: the route itself), and
\* its content: an identifier or kind tag (value) or text
Event(type, call, value, text, text2) ==
    [type |-> type, call |-> call, value |-> value, text |-> text, text2 |-> text2]

\* writeDataToStream(dataStream, type, content) of tool call `call`
Data(type, call, value, text) == Event(type, call, value, text, Empty)

\* a variant of execute that starts streamText without writing the user-message-id
PostOpenStreamUnannounced ==
    /\ pc = "opening"
    /\ pc' = "streaming"
    /\ status' = 200
    /\ channel' = "open"
    /\ step' = 1
    /\ generating' = TRUE
    /\ UNCHANGED <<store, ids, req, events, userMessageId, stepText, calls, responseMessages,
                   deltas, turnError, saving, del, pure, facade, aside>>

\* createDataStreamResponse: the response is a streaming 200; execute writes
\* the user-message-id and starts streamText
PostOpenStream ==
    /\ pc = "opening"
    /\ pc' = "streaming"
    /\ status' = 200
    /\ channel' = "open"
    /\ events' = Append(events, Data("user-message-id", 0, userMessageId, Empty))
    /\ step' = 1
    /\ generating' = TRUE
    /\ UNCHANGED <<store, ids, req, userMessageId, stepText, calls, responseMessages,
                   deltas, turnError, saving, del, pure, facade, aside>>

\* ------------------------------------------------- streamText, the model
\* the k-th fragment a text stream delivers: the fragments of a stream differ,
\* so that a lost, repeated or displaced one shows
Fragment(k) == <<ToString(k)>>

\* the tool calls of the current step
StepCalls == {i \in DOMAIN calls : calls[i].step = step}
\* a variant in which the step does not wait for the tool calls
FinishedUnawaited(i) == TRUE

\* the promise of the call's execute has settled
Finished(i) == calls[i].pc \in {"done", "failed"}

\* document ids the model may pass: those of stored documents and one of none
DocIdArgs == {d.id : d \in documents} \cup {MissingDoc}

Call(name, docId, title, kind) ==
    [name |-> name, step |-> step, pc |-> "start", docId |-> docId, title |-> title,
     kind |-> kind, draft |-> Empty, parts |-> 0, suggestions |-> <<>>,
     documentCreatedAt |-> 0, result |-> "none"]

\* the chat model emits a text fragment; mergeIntoDataStream forwards it
ModelTextDelta ==
    /\ pc = "streaming" /\ generating
    /\ deltas < MaxDeltas
    /\ LET textDelta == Fragment(deltas + 1)
       IN  /\ stepText' = stepText \o textDelta
           /\ events' = Append(events, Event("text", 0, "", textDelta, Empty))
    /\ deltas' = deltas + 1
    /\ UNCHANGED <<store, ids, req, pc, status, channel, userMessageId, step,
                   generating, calls, responseMessages, turnError, saving, del, pure, facade, aside>>

\* The chat model calls a tool: streamText calls its execute, which runs to its
\* first await while the model goes on generating.
CallingUpTo(limit) ==
    /\ pc = "streaming" /\ generating
    /\ Len(calls) < limit

Calling == CallingUpTo(MaxCalls)

\* ... getWeather, which awaits the fetch; the chat model makes up to `limit`
\* calls in the turn
CallGetWeatherUpTo(limit) ==
    /\ CallingUpTo(limit)
    /\ calls' = Append(calls, Call("getWeather", "", Empty, "text"))
    /\ UNCHANGED <<store, ids, post, step, generating, stepText, responseMessages,
                   deltas, turnError, saving, del, pure, facade, aside>>

CallGetWeather == CallGetWeatherUpTo(MaxCalls)

\* ... updateDocument, which awaits getDocumentById
CallUpdateDocument ==
    /\ Calling
    /\ \E id \in DocIdArgs :
            calls' = Append(calls, Call("updateDocument", id, Empty, "text"))
    /\ UNCHANGED <<store, ids, post, step, generating, stepText, responseMessages,
                   deltas, turnError, saving, del, pure, facade, aside>>

\* ... requestSuggestions, which awaits getDocumentById
CallRequestSuggestions ==
    /\ Calling
    /\ \E id \in DocIdArgs :
            calls' = Append(calls, Call("requestSuggestions", id, Empty, "text"))
    /\ UNCHANGED <<store, ids, post, step, generating, stepText, responseMessages,
                   deltas, turnError, saving, del, pure, facade, aside>>

\* the chat model ends the generation of the step
ModelStepDone ==
    /\ pc = "streaming" /\ generating
    /\ generating' = FALSE
    /\ UNCHANGED <<store, ids, post, step, stepText, calls, responseMessages,
                   deltas, turnError, saving, del, pure, facade, aside>>

\* the messages streamText adds for a step: the assistant message with the
\* text and the tool calls, and a tool message when there are results
SeqOfSet(S) ==
    LET RECURSIVE ordered(_)
        ordered(T) == IF T = {} THEN <<>>
                      ELSE LET m == CHOOSE x \in T : \A y \in T : x <= y
                           IN  <<m>> \o ordered(T \ {m})
    IN  ordered(S)

StepMessages ==
    LET called == SeqOfSet(StepCalls)
        answered == SeqOfSet({i \in StepCalls : calls[i].pc = "done"})
        assistant ==
            [role |-> "assistant",
             content |-> PartsContent(<<TextPart(stepText)>> \o
                            [k \in DOMAIN called |-> ToolCallPart(called[k])])]
        tool ==
            [role |-> "tool",
             content |-> PartsContent([k \in DOMAIN answered |-> ToolResultPart(answered[k])])]
    IN  IF answered = <<>> THEN <<assistant>> ELSE <<assistant, tool>>

\* a variant without the step limit
ContinueStepsUnlimited ==
    /\ StepCalls # {}
    /\ \A i \in StepCalls : calls[i].pc = "done"

\* streamText goes on to another step when the step made tool calls, every
\* call has its result and the step limit is not reached
ContinueSteps ==
    /\ StepCalls # {}
    /\ \A i \in StepCalls : calls[i].pc = "done"
    /\ step < maxSteps

\* the step is over: the model has ended it and every tool call has settled
StepFinish ==
    /\ pc = "streaming" /\ ~generating
    /\ \A i \in StepCalls : Finished(i)
    /\ responseMessages' = responseMessages \o StepMessages
    /\ stepText' = Empty
    /\ IF ContinueSteps
       THEN step' = step + 1 /\ generating' = TRUE /\ pc' = pc
       ELSE pc' = "finishing" /\ UNCHANGED <<step, generating>>
    /\ UNCHANGED <<store, ids, req, status, channel, events, userMessageId, calls,
                   deltas, turnError, saving, del, pure, facade, aside>>

\* ------------------------------------------------------------ the tools
\* the execute of call i is in progress, wherever streamText is; streamText
\* ends a step only when its calls have settled (StepFinish)
Running(i) == i \in DOMAIN calls

\* execute threw the error with this message: the call settles without a result
ToolThrows(i, message) ==
    /\ calls' = [calls EXCEPT ![i].pc = "failed", ![i].result = message]
    /\ turnError' = TRUE

\* handleGetWeather: the fetch answers or throws
HandleGetWeather(i) ==
    /\ Running(i) /\ calls[i].name = "getWeather" /\ calls[i].pc = "start"
    /\ \/ /\ calls' = [calls EXCEPT ![i].pc = "done", ![i].result = "ok"]
          /\ UNCHANGED turnError
       \/ ToolThrows(i, "fetch failed")
    /\ UNCHANGED <<store, ids, post, step, generating, stepText, responseMessages,
                   deltas, saving, del, pure, facade, aside>>

\* a variant that writes clear first
CreateDocumentHeaderClearFirst(i, id, title, kind) ==
    <<Data("clear", i, "", Empty), Data("id", i, id, Empty), Data("title", i, "", title),
      Data("kind", i, kind, Empty)>>

\* the events handleCreateDocument writes before streaming
CreateDocumentHeader(i, id, title, kind) ==
    <<Data("id", i, id, Empty), Data("title", i, "", title),
      Data("kind", i, kind, Empty), Data("clear", i, "", Empty)>>

\* ... createDocument: handleCreateDocument draws the id and writes the four
\* events before its first await, in streamDocumentContent
HandleCreateDocument ==
    /\ Calling
    /\ \E title \in Titles, kind \in Kinds :
        LET id == generateUUID(nextId)
            i == Len(calls) + 1
        IN  /\ events' = events \o CreateDocumentHeader(i, id, title, kind)
            /\ calls' = Append(calls, [Call("createDocument", id, title, kind)
                                          EXCEPT !.pc = "stream"])
    /\ nextId' = nextId + 1
    /\ UNCHANGED <<store, now, req, pc, status, channel, userMessageId, step,
                   generating, stepText, responseMessages, deltas, turnError, saving, del, pure, facade, aside>>

\* a variant without the early return of a document that is not found
HandleUpdateDocumentUnchecked(i) ==
    /\ Running(i) /\ calls[i].name = "updateDocument" /\ calls[i].pc = "start"
    /\ \/ /\ getDocumentById(calls[i].docId) = {}
          /\ events' = Append(events, Data("clear", i, "", Empty))
          /\ calls' = [calls EXCEPT ![i].pc = "stream"]
          /\ UNCHANGED turnError
       \/ /\ \E document \in getDocumentById(calls[i].docId) :
                /\ events' = Append(events, Data("clear", i, "", document.title))
                /\ calls' = [calls EXCEPT ![i].pc = "stream", ![i].title = document.title,
                                          ![i].kind = document.kind]
          /\ UNCHANGED turnError
       \/ /\ ToolThrows(i, "Failed to get document by id")
          /\ UNCHANGED events
    /\ UNCHANGED <<store, ids, req, pc, status, channel, userMessageId, step,
                   generating, stepText, responseMessages, deltas, saving, del, pure, facade, aside>>

\* a variant that clears with the empty string, as handleCreateDocument does
HandleUpdateDocumentClearEmpty(i) ==
    /\ Running(i) /\ calls[i].name = "updateDocument" /\ calls[i].pc = "start"
    /\ \/ /\ getDocumentById(calls[i].docId) = {}
          /\ calls' = [calls EXCEPT ![i].pc = "done", ![i].result = "not-found"]
          /\ UNCHANGED <<events, turnError>>
       \/ /\ \E document \in getDocumentById(calls[i].docId) :
                /\ events' = Append(events, Data("clear", i, "", Empty))
                /\ calls' = [calls EXCEPT ![i].pc = "stream", ![i].title = document.title,
                                          ![i].kind = document.kind]
          /\ UNCHANGED turnError
       \/ /\ ToolThrows(i, "Failed to get document by id")
          /\ UNCHANGED events
    /\ UNCHANGED <<store, ids, req, pc, status, channel, userMessageId, step,
                   generating, stepText, responseMessages, deltas, saving, del, pure, facade, aside>>

\* handleUpdateDocument up to the call of streamDocumentContent
HandleUpdateDocument(i) ==
    /\ Running(i) /\ calls[i].name = "updateDocument" /\ calls[i].pc = "start"
    /\ \/ /\ getDocumentById(calls[i].docId) = {}
          /\ calls' = [calls EXCEPT ![i].pc = "done", ![i].result = "not-found"]
          /\ UNCHANGED <<events, turnError>>
       \/ /\ \E document \in getDocumentById(calls[i].docId) :
                /\ events' = Append(events, Data("clear", i, "", document.title))
                /\ calls' = [calls EXCEPT ![i].pc = "stream", ![i].title = document.title,
                                          ![i].kind = document.kind]
          /\ UNCHANGED turnError
       \/ /\ ToolThrows(i, "Failed to get document by id")
          /\ UNCHANGED events
    /\ UNCHANGED <<store, ids, req, pc, status, channel, userMessageId, step,
                   generating, stepText, responseMessages, deltas, saving, del, pure, facade, aside>>

\* the parts fullStream delivers: of streamText for the text kind, of
\* streamObject for the code kind.
\* The k-th text-delta of a text stream carries the k-th fragment; the k-th
\* object of an object stream with code carries the code grown to k characters.
\* "other" is any part the loop skips, with whatever it carries; an object may
\* carry no code yet.
Code(k) == [j \in 1..k |-> ToString(j)]
StreamParts(kind, k) ==
    IF kind = "text"
    THEN {[type |-> "text-delta", text |-> Fragment(k)], [type |-> "other", text |-> <<"x">>]}
    ELSE {[type |-> "object", text |-> Code(k)], [type |-> "object", text |-> Empty],
          [type |-> "other", text |-> Empty]}

\* a variant of the text loop that appends what any part carries
DraftAfterAnyPart(kind, draftText, delta) ==
    IF kind = "text" THEN draftText \o delta.text
    ELSE IF kind = "code" /\ delta.type = "object" /\ delta.text # Empty THEN delta.text
    ELSE draftText

\* a variant of the code loop that appends the value
DraftAfterCodeAppended(kind, draftText, delta) ==
    IF kind = "text" /\ delta.type = "text-delta" THEN draftText \o delta.text
    ELSE IF kind = "code" /\ delta.type = "object" /\ delta.text # Empty
    THEN draftText \o delta.text
    ELSE draftText

\* a variant of the text loop that forwards the fragment and does not append it
DraftAfterUnappended(kind, draftText, delta) ==
    IF kind = "code" /\ delta.type = "object" /\ delta.text # Empty THEN delta.text
    ELSE draftText

\* one iteration of the loops of streamDocumentContent: the accumulator ...
DraftAfter(kind, draftText, delta) ==
    IF kind = "text" /\ delta.type = "text-delta" THEN draftText \o delta.text
    ELSE IF kind = "code" /\ delta.type = "object" /\ delta.text # Empty THEN delta.text
    ELSE draftText

\* ... and the events written
DeltaEvents(kind, i, delta) ==
    IF kind = "text" /\ delta.type = "text-delta" THEN <<Data("text-delta", i, "", delta.text)>>
    ELSE IF kind = "code" /\ delta.type = "object" /\ delta.text # Empty
    THEN <<Data("code-delta", i, "", delta.text)>>
    ELSE <<>>

\* the deltas and the elements delivered in the turn so far
RECURSIVE Sum(_, _)
Sum(f, S) ==
    IF S = {} THEN 0
    ELSE LET x == CHOOSE y \in S : TRUE IN f[x] + Sum(f, S \ {x})
PartsOfTurn == Sum([i \in DOMAIN calls |-> calls[i].parts], DOMAIN calls)
ElementsOfTurn == Sum([i \in DOMAIN calls |-> Len(calls[i].suggestions)], DOMAIN calls)

Streaming(i) ==
    /\ Running(i)
    /\ calls[i].name \in {"createDocument", "updateDocument"}
    /\ calls[i].pc = "stream"

\* streamDocumentContent: the stream delivers a part; parts counts the
\* events written for the call, and the content streams of the turn deliver
\* up to `limit` parts that are written
StreamDocumentContentUpTo(i, limit) ==
    /\ Streaming(i)
    /\ PartsOfTurn < limit
    /\ \E delta \in StreamParts(calls[i].kind, calls[i].parts + 1) :
        /\ calls' = [calls EXCEPT ![i].draft = DraftAfter(calls[i].kind, @, delta),
                                  ![i].parts = @ + Len(DeltaEvents(calls[i].kind, i, delta))]
        /\ events' = events \o DeltaEvents(calls[i].kind, i, delta)
    /\ UNCHANGED <<store, ids, req, pc, status, channel, userMessageId, step,
                   generating, stepText, responseMessages, deltas, turnError, saving, del, pure, facade, aside>>

StreamDocumentContent(i) == StreamDocumentContentUpTo(i, MaxParts)

\* the stream ends: streamDocumentContent returns and the caller writes finish
StreamDocumentFinish(i) ==
    /\ Streaming(i)
    /\ events' = Append(events, Data("finish", i, "", Empty))
    /\ calls' = [calls EXCEPT ![i].pc = "save"]
    /\ UNCHANGED <<store, ids, req, pc, status, channel, userMessageId, step,
                   generating, stepText, responseMessages, deltas, turnError, saving, del, pure, facade, aside>>

\* a variant of saveDocument that replaces the revisions of the id
saveDocumentInPlace(id, title, kind, content, userId, createdAt) ==
    documents' = {d \in documents : d.id # id} \cup
        {[id |-> id, title |-> title, kind |-> kind, content |-> content,
          userId |-> userId, createdAt |-> createdAt]}

\* a variant of saveDocument that inserts nothing
saveDocumentNowhere(id, title, kind, content, userId, createdAt) ==
    documents' = documents

\* saveDocument: one row with the id, the time of the insert and the content
saveDocument(id, title, kind, content, userId, createdAt) ==
    documents' = documents \cup
        {[id |-> id, title |-> title, kind |-> kind, content |-> content,
          userId |-> userId, createdAt |-> createdAt]}

\* the saveDocument call of handleCreateDocument / handleUpdateDocument and
\* their return
DocumentSave(i) ==
    /\ Running(i)
    /\ calls[i].name \in {"createDocument", "updateDocument"}
    /\ calls[i].pc = "save"
    /\ \/ /\ \E t \in Clock :
                /\ saveDocument(calls[i].docId, calls[i].title, calls[i].kind,
                                calls[i].draft, req.user, t)
                /\ now' = t + 1
          /\ calls' = [calls EXCEPT ![i].pc = "done", ![i].result = "ok"]
          /\ UNCHANGED turnError
       \/ /\ ToolThrows(i, "Failed to save document")
          /\ UNCHANGED <<documents, now>>
    /\ UNCHANGED <<chats, messages, votes, suggestions, nextId, post, step,
                   generating, stepText, responseMessages, deltas, saving, del, pure, facade, aside>>

\* handleRequestSuggestions up to the element loop
HandleRequestSuggestions(i) ==
    /\ Running(i) /\ calls[i].name = "requestSuggestions" /\ calls[i].pc = "start"
    /\ \/ /\ \A document \in getDocumentById(calls[i].docId) : document.content = Empty
          /\ calls' = [calls EXCEPT ![i].pc = "done", ![i].result = "not-found"]
          /\ UNCHANGED turnError
       \/ /\ \E document \in getDocumentById(calls[i].docId) :
                /\ document.content # Empty
                /\ calls' = [calls EXCEPT ![i].pc = "stream", ![i].title = document.title,
                                          ![i].kind = document.kind,
                                          ![i].documentCreatedAt = document.createdAt]
          /\ UNCHANGED turnError
       \/ ToolThrows(i, "Failed to get document by id")
    /\ UNCHANGED <<store, ids, post, step, generating, stepText, responseMessages,
                   deltas, saving, del, pure, facade, aside>>

\* the k-th element elementStream delivers
Element(k) ==
    [originalSentence |-> <<"o", ToString(k)>>, suggestedSentence |-> <<"s", ToString(k)>>]

\* the suggestion built from an element
Suggestion(element, id, documentId) ==
    [id |-> id, documentId |-> documentId, originalText |-> element.originalSentence,
     suggestedText |-> element.suggestedSentence, isResolved |-> FALSE]

\* one iteration of the element loop: the suggestion is written and pushed;
\* the element streams of the turn deliver up to `limit` elements
SuggestionElementUpTo(i, limit) ==
    /\ Running(i) /\ calls[i].name = "requestSuggestions" /\ calls[i].pc = "stream"
    /\ ElementsOfTurn < limit
    /\ LET element == Element(Len(calls[i].suggestions) + 1)
           suggestion == Suggestion(element, generateUUID(nextId), calls[i].docId)
       IN  /\ events' = Append(events, Event("suggestion", i, suggestion.id,
                                              suggestion.originalText, suggestion.suggestedText))
            /\ calls' = [calls EXCEPT ![i].suggestions = Append(@, suggestion)]
    /\ nextId' = nextId + 1
    /\ UNCHANGED <<store, now, req, pc, status, channel, userMessageId, step,
                   generating, stepText, responseMessages, deltas, turnError, saving, del, pure, facade, aside>>

SuggestionElement(i) == SuggestionElementUpTo(i, MaxElements)

\* the rows saveSuggestions is given
SuggestionRows(list, userId, createdAt, documentCreatedAt) ==
    {[id |-> list[k].id, documentId |-> list[k].documentId,
      originalText |-> list[k].originalText, suggestedText |-> list[k].suggestedText,
      isResolved |-> list[k].isResolved, userId |-> userId, createdAt |-> createdAt,
      documentCreatedAt |-> documentCreatedAt] : k \in DOMAIN list}

\* the element stream ends and saveSuggestions inserts the rows; the insert
\* throws on failure, and drizzle's values() throws on an empty array
SuggestionsSave(i) ==
    /\ Running(i) /\ calls[i].name = "requestSuggestions" /\ calls[i].pc = "stream"
    /\ \/ /\ calls[i].suggestions # <<>>
          /\ \E t \in Clock :
                /\ suggestions' = suggestions \cup
                      SuggestionRows(calls[i].suggestions, req.user, t,
                                     calls[i].documentCreatedAt)
                /\ SuggestionsHaveRevisions(suggestions', documents)
                /\ now' = t + 1
          /\ calls' = [calls EXCEPT ![i].pc = "done", ![i].result = "ok"]
          /\ UNCHANGED turnError
       \/ /\ ToolThrows(i, "Failed to save suggestions")
          /\ UNCHANGED <<suggestions, now>>
    /\ UNCHANGED <<chats, messages, votes, documents, nextId, post, step,
                   generating, stepText, responseMessages, deltas, saving, del, pure, facade, aside>>

\* ------------------------------------------------- saveResponseMessages
\* a variant of the map that draws one id for the whole batch
ResponseRowsOneId(sanitizedMessages, chatId, firstId, createdAt) ==
    [k \in DOMAIN sanitizedMessages |->
        [id |-> generateUUID(firstId), chatId |-> chatId,
         role |-> sanitizedMessages[k].role, content |-> sanitizedMessages[k].content,
         createdAt |-> createdAt]]

\* the rows the map of saveResponseMessages builds: message k of the
\* sanitized list under the k-th fresh id
ResponseRows(sanitizedMessages, chatId, firstId, createdAt) ==
    [k \in DOMAIN sanitizedMessages |->
        [id |-> generateUUID(firstId + k - 1), chatId |-> chatId,
         role |-> sanitizedMessages[k].role, content |-> sanitizedMessages[k].content,
         createdAt |-> createdAt]]

\* the annotations the map writes: one per assistant message, in order
Annotations(rows) ==
    LET assistants == SelectSeq(rows, LAMBDA row : row.role = "assistant")
    IN  [k \in DOMAIN assistants |-> Event("annotation", 0, assistants[k].id, Empty, Empty)]

\* onFinish: saveResponseMessages sanitizes, builds the rows, writes the
\* annotations and calls saveMessages
SaveResponseMessages ==
    /\ pc = "finishing"
    /\ \E t \in Clock :
        LET sanitizedMessages == sanitizeResponseMessages(responseMessages)
            rows == ResponseRows(sanitizedMessages, req.id, nextId, t)
        IN  /\ batch' = rows
            /\ events' = events \o Annotations(rows)
            /\ nextId' = nextId + Len(rows)
            /\ now' = t + 1
    /\ saveCalls' = saveCalls + 1
    /\ pc' = "saving-response"
    /\ UNCHANGED <<store, req, status, channel, userMessageId, stream, del, pure, facade, aside>>

\* a variant in which a failing insert has stored the first row
SaveMessagesPartly ==
    /\ pc = "saving-response"
    /\ \/ /\ batch # <<>>
          /\ messages' = messages \cup {batch[k] : k \in DOMAIN batch}
          /\ MessagesHaveChats(messages', chats)
          /\ UNCHANGED turnError
       \/ /\ turnError' = TRUE
          /\ messages' = messages \cup {batch[k] : k \in DOMAIN batch \cap {1}}
    /\ pc' = "closed"
    /\ channel' = "closed"
    /\ UNCHANGED <<chats, votes, documents, suggestions, ids, req, status, events,
                   userMessageId, step, generating, stepText, calls, responseMessages,
                   deltas, saving, del, pure, facade, aside>>

\* saveMessages: the insert of the batch takes effect or throws (drizzle's
\* values() throws on an empty array); the stream ends either way
SaveMessages ==
    /\ pc = "saving-response"
    /\ \/ /\ batch # <<>>
          /\ messages' = messages \cup {batch[k] : k \in DOMAIN batch}
          /\ MessagesHaveChats(messages', chats)
          /\ UNCHANGED turnError
       \/ /\ turnError' = TRUE
          /\ UNCHANGED messages
    /\ pc' = "closed"
    /\ channel' = "closed"
    /\ UNCHANGED <<chats, votes, documents, suggestions, ids, req, status, events,
                   userMessageId, step, generating, stepText, calls, responseMessages,
                   deltas, saving, del, pure, facade, aside>>

\* ----------------------------------------------------------------- DELETE
NoId == ""

\* the status the catch block of DELETE gives an error message
DeleteErrorStatus(message) == IF message = "Unauthorized" THEN 401 ELSE 500

\* handleApiError: the response carries the status and the error's message
DeleteRespond(code, message) ==
    /\ dpc' = "responded"
    /\ dstatus' = code
    /\ dbody' = message

\* the catch block of DELETE
DeleteFail(message) == DeleteRespond(DeleteErrorStatus(message), message)

\* a request arrives; one without an id parameter is answered 404
DeleteRequest ==
    /\ dpc = "idle"
    /\ \E r \in [user : Users \cup {NoUser}, id : ChatIds \cup {NoId}] :
        /\ dreq' = r
        /\ IF r.id = NoId
           THEN DeleteRespond(404, "Chat ID not provided")
           ELSE dpc' = "authenticating" /\ UNCHANGED <<dstatus, dbody>>
    /\ UNCHANGED <<store, ids, post, stream, saving, dbefore, pure, facade, aside>>

\* authenticateUser
DeleteAuthenticate ==
    /\ dpc = "authenticating"
    /\ IF dreq.user = NoUser
       THEN DeleteFail("Unauthorized")
       ELSE dpc' = "loading-chat" /\ UNCHANGED <<dstatus, dbody>>
    /\ UNCHANGED <<store, ids, post, stream, saving, dreq, dbefore, pure, facade, aside>>

\* a variant of the ownership test that lets every caller through
NotOwnerNever(chat, userId) == FALSE

\* chat.userId !== userId
NotOwner(chat, userId) == chat.userId # userId

\* getChatById, which may throw, and the ownership test; reading userId of
\* no chat is a TypeError
DeleteGetChat ==
    /\ dpc = "loading-chat"
    /\ \/ /\ getChatById(dreq.id) = {}
          /\ DeleteFail("Cannot read properties of undefined")
          /\ UNCHANGED dbefore
       \/ \E chat \in getChatById(dreq.id) :
            IF NotOwner(chat, dreq.user)
            THEN DeleteRespond(401, "Unauthorized to delete this chat") /\ UNCHANGED dbefore
            ELSE /\ dpc' = "deleting-votes"
                 /\ dbefore' = <<chats, messages, votes>>
                 /\ UNCHANGED <<dstatus, dbody>>
       \/ DeleteFail("Failed to get chat by id") /\ UNCHANGED dbefore
    /\ UNCHANGED <<store, ids, post, stream, saving, dreq, pure, facade, aside>>

\* a variant of the first statement that deletes no vote
DeleteVotesOfNone ==
    /\ dpc = "deleting-votes"
    /\ \/ /\ votes' = votes
          /\ dpc' = "deleting-messages"
          /\ UNCHANGED <<dstatus, dbody>>
       \/ /\ DeleteFail("Failed to delete chat by id")
          /\ UNCHANGED votes
    /\ UNCHANGED <<chats, messages, documents, suggestions, ids, post, stream, saving,
                   dreq, dbefore, pure, facade, aside>>

\* deleteChatById, first statement: the votes of the chat
DeleteVotes ==
    /\ dpc = "deleting-votes"
    /\ \/ /\ votes' = {v \in votes : v.chatId # dreq.id}
          /\ dpc' = "deleting-messages"
          /\ UNCHANGED <<dstatus, dbody>>
       \/ /\ DeleteFail("Failed to delete chat by id")
          /\ UNCHANGED votes
    /\ UNCHANGED <<chats, messages, documents, suggestions, ids, post, stream, saving,
                   dreq, dbefore, pure, facade, aside>>

\* deleteChatById, second statement: the messages of the chat
DeleteMessages ==
    /\ dpc = "deleting-messages"
    /\ \/ /\ messages' = {m \in messages : m.chatId # dreq.id}
          /\ dpc' = "deleting-chat"
          /\ UNCHANGED <<dstatus, dbody>>
       \/ /\ DeleteFail("Failed to delete chat by id")
          /\ UNCHANGED messages
    /\ UNCHANGED <<chats, votes, documents, suggestions, ids, post, stream, saving,
                   dreq, dbefore, pure, facade, aside>>

\* deleteChatById, third statement: the chat; then the 200 of DELETE
DeleteChat ==
    /\ dpc = "deleting-chat"
    /\ \/ /\ chats' = {c \in chats : c.id # dreq.id}
          /\ MessagesHaveChats(messages, chats')
          /\ DeleteRespond(200, "Chat deleted")
       \/ /\ DeleteFail("Failed to delete chat by id")
          /\ UNCHANGED chats
    /\ UNCHANGED <<messages, votes, documents, suggestions, ids, post, stream, saving,
                   dreq, dbefore, pure, facade, aside>>

\* ------------------------------------- deleteDocumentsByIdAfterTimestamp
\* timestamps a caller may pass: those of the stored revisions and the
\* instants before them
Timestamps == UNION {{d.createdAt - 1, d.createdAt} : d \in documents}

\* the facade function is called
DeleteDocumentsCall ==
    /\ ddpc = "idle"
    /\ \E id \in DocIdArgs, timestamp \in Timestamps :
            ddel' = [id |-> id, timestamp |-> timestamp]
    /\ ddpc' = "deleting-suggestions"
    /\ UNCHANGED <<store, ids, post, stream, saving, del, pure, voting, aside>>

\* first statement: the suggestions on the revisions after the timestamp
DeleteDocumentSuggestions ==
    /\ ddpc = "deleting-suggestions"
    /\ \/ /\ suggestions' = {x \in suggestions :
                    ~(x.documentId = ddel.id /\ x.documentCreatedAt > ddel.timestamp)}
          /\ ddpc' = "deleting-documents"
       \/ /\ ddpc' = "raised"
          /\ UNCHANGED suggestions
    /\ UNCHANGED <<chats, messages, votes, documents, ids, post, stream, saving, del,
                   pure, ddel, voting, aside>>

\* second statement: the revisions after the timestamp; it raises when a
\* suggestion still references one of them, or on any other failure
DeleteDocumentRevisions ==
    /\ ddpc = "deleting-documents"
    /\ \/ /\ documents' = {d \in documents :
                    ~(d.id = ddel.id /\ d.createdAt > ddel.timestamp)}
          /\ SuggestionsHaveRevisions(suggestions, documents')
          /\ ddpc' = "returned"
       \/ /\ ddpc' = "raised"
          /\ UNCHANGED documents
    /\ UNCHANGED <<chats, messages, votes, suggestions, ids, post, stream, saving, del,
                   pure, ddel, voting, aside>>

\* ------------------------------------------------------------ voteMessage
\* the facade function is called by caller p for a stored message and, as
\* its parameters are documented, the chat the message belongs to
VoteCall(p) ==
    /\ voting[p].pc = "idle"
    /\ \E m \in messages, type \in {"up", "down"} :
            voting' = [voting EXCEPT ![p] = [chatId |-> m.chatId, messageId |-> m.id,
                                             type |-> type, pc |-> "selecting",
                                             existing |-> {}]]
    /\ UNCHANGED <<store, ids, post, stream, saving, del, pure, ddel, ddpc, aside>>

\* the select of the votes on the message, by the message id alone
VoteSelect(p) ==
    /\ voting[p].pc = "selecting"
    /\ \/ voting' = [voting EXCEPT ![p].pc = "writing",
                                    ![p].existing = {v \in votes : v.messageId = voting[p].messageId}]
       \/ voting' = [voting EXCEPT ![p].pc = "raised"]
    /\ UNCHANGED <<store, ids, post, stream, saving, del, pure, ddel, ddpc, aside>>

\* a variant whose update sets the flag whatever the type
VoteWriteAlwaysUp(p) ==
    /\ voting[p].pc = "writing"
    /\ \/ /\ voting[p].existing # {}
          /\ votes' = {IF v.messageId = voting[p].messageId /\ v.chatId = voting[p].chatId
                        THEN [v EXCEPT !.isUpvoted = TRUE]
                        ELSE v : v \in votes}
          /\ voting' = [voting EXCEPT ![p].pc = "returned"]
       \/ /\ voting[p].existing = {}
          /\ votes' = votes \cup {[chatId |-> voting[p].chatId,
                                    messageId |-> voting[p].messageId,
                                    isUpvoted |-> (voting[p].type = "up")]}
          /\ VotesHaveKey(votes')
          /\ voting' = [voting EXCEPT ![p].pc = "returned"]
       \/ /\ voting' = [voting EXCEPT ![p].pc = "raised"]
          /\ UNCHANGED votes
    /\ UNCHANGED <<chats, messages, documents, suggestions, ids, post, stream, saving,
                   del, pure, ddel, ddpc, aside>>

\* the update of the vote of the chat and the message when the select found
\* a vote, the insert of a vote otherwise; either may raise
VoteWrite(p) ==
    /\ voting[p].pc = "writing"
    /\ \/ /\ voting[p].existing # {}
          /\ votes' = {IF v.messageId = voting[p].messageId /\ v.chatId = voting[p].chatId
                        THEN [v EXCEPT !.isUpvoted = (voting[p].type = "up")]
                        ELSE v : v \in votes}
          /\ voting' = [voting EXCEPT ![p].pc = "returned"]
       \/ /\ voting[p].existing = {}
          /\ votes' = votes \cup {[chatId |-> voting[p].chatId,
                                    messageId |-> voting[p].messageId,
                                    isUpvoted |-> (voting[p].type = "up")]}
          /\ VotesHaveKey(votes')
          /\ voting' = [voting EXCEPT ![p].pc = "returned"]
       \/ /\ voting' = [voting EXCEPT ![p].pc = "raised"]
          /\ UNCHANGED votes
    /\ UNCHANGED <<chats, messages, documents, suggestions, ids, post, stream, saving,
                   del, pure, ddel, ddpc, aside>>

\* ------------------------------------------- app/(chat)/chat/[id]/page.tsx
\* a chat id that names no stored chat
MissingChat == "c0"

\* the page of a chat is requested, by a visitor with or without a session
PageRequest ==
    /\ page.pc = "idle"
    /\ \E id \in ChatIds \cup {MissingChat}, user \in Users \cup {NoUser} :
            page' = [NoPage EXCEPT !.id = id, !.user = user, !.pc = "loading-chat"]
    /\ UNCHANGED <<store, ids, post, stream, saving, del, pure, facade, trail, peer>>

\* getChatById, which may throw; notFound() for no chat
PageGetChat ==
    /\ page.pc = "loading-chat"
    /\ \/ /\ getChatById(page.id) = {}
          /\ page' = [page EXCEPT !.pc = "responded", !.result = "not-found"]
       \/ \E chat \in getChatById(page.id) :
            page' = [page EXCEPT !.pc = "authorizing", !.chat = {chat}]
       \/ page' = [page EXCEPT !.pc = "responded", !.result = "error"]
    /\ UNCHANGED <<store, ids, post, stream, saving, del, pure, facade, trail, peer>>

\* a variant of the test that refuses only the visitors without a session
PageRefusesNoSession(chat, user) ==
    /\ chat.visibility = "private"
    /\ user = NoUser

\* the test on the visibility of the chat and the session
PageRefuses(chat, user) ==
    /\ chat.visibility = "private"
    /\ user = NoUser \/ user # chat.userId

\* auth() and the test: notFound() or on to the messages
PageAuthorize ==
    /\ page.pc = "authorizing"
    /\ \E chat \in page.chat :
            IF PageRefuses(chat, page.user)
            THEN page' = [page EXCEPT !.pc = "responded", !.result = "not-found"]
            ELSE page' = [page EXCEPT !.pc = "loading-messages"]
    /\ UNCHANGED <<store, ids, post, stream, saving, del, pure, facade, trail, peer>>

\* getMessagesByChatId, which may throw, and the rendering of the chat
PageGetMessages ==
    /\ page.pc = "loading-messages"
    /\ \/ page' = [page EXCEPT !.pc = "responded", !.fetched = TRUE, !.result = "chat",
                                  !.shown = getMessagesByChatId(page.id)]
       \/ page' = [page EXCEPT !.pc = "responded", !.fetched = TRUE, !.result = "error"]
    /\ UNCHANGED <<store, ids, post, stream, saving, del, pure, facade, trail, peer>>

\* updateChatVisibility: updateChatVisiblityById sets the visibility of the chat
UpdateChatVisibility ==
    /\ \E chatId \in ChatIds, visibility \in {"private", "public"} :
            chats' = {IF c.id = chatId THEN [c EXCEPT !.visibility = visibility] ELSE c :
                        c \in chats}
    /\ UNCHANGED <<messages, votes, documents, suggestions, ids, post, stream, saving,
                   del, pure, facade, aside>>

\* ------------------------------------ app/(chat)/actions.ts, trailing deletion
\* a message id that names no stored message
MissingMessage == "m0"

\* the messages deleteMessagesByChatIdAfterTimestamp deletes: those of the chat
\* created at or after the timestamp
Trailing(chatId, timestamp) ==
    {m \in messages : m.chatId = chatId /\ m.createdAt >= timestamp}

\* deleteTrailingMessages is called with the id of a message
TrailCall ==
    /\ trail.pc = "idle"
    /\ \E id \in {m.id : m \in messages} \cup {MissingMessage} :
            trail' = [NoTrail EXCEPT !.id = id, !.pc = "reading"]
    /\ UNCHANGED <<store, ids, post, stream, saving, del, pure, facade, page, peer>>

\* getMessageById; no message, or a failing select, ends the call with
\* 'Failed to delete trailing messages.'
TrailGetMessage ==
    /\ trail.pc = "reading"
    /\ \/ /\ {m \in messages : m.id = trail.id} = {}
          /\ trail' = [trail EXCEPT !.pc = "raised"]
       \/ \E message \in {m \in messages : m.id = trail.id} :
            trail' = [trail EXCEPT !.pc = "deleting", !.message = {message}]
       \/ trail' = [trail EXCEPT !.pc = "raised"]
    /\ UNCHANGED <<store, ids, post, stream, saving, del, pure, facade, page, peer>>

\* deleteMessagesByChatIdAfterTimestamp with the chat and the timestamp of
\* the message read: one delete statement, which may raise
TrailDelete ==
    /\ trail.pc = "deleting"
    /\ \/ /\ \E message \in trail.message :
                messages' = messages \ Trailing(message.chatId, message.createdAt)
          /\ trail' = [trail EXCEPT !.pc = "returned"]
       \/ /\ trail' = [trail EXCEPT !.pc = "raised"]
          /\ UNCHANGED messages
    /\ UNCHANGED <<chats, votes, documents, suggestions, ids, post, stream, saving, del,
                   pure, facade, page, peer>>

\* ------------------------------------------------------- specifications
\* what is stored when the requests arrive
SeedStore ==
    /\ chats = {[id |-> SeedChat, userId |-> SeedOwner, visibility |-> "private",
                 createdAt |-> 0]}
    /\ messages = {[id |-> SeedMessage, chatId |-> SeedChat, role |-> "user",
                    content |-> StringContent(<<"a">>), createdAt |-> 0]}
    /\ votes = {[chatId |-> SeedChat, messageId |-> SeedMessage, isUpvoted |-> TRUE]}
    /\ documents = {[id |-> SeedDoc, title |-> SeedTitle, kind |-> "text",
                      content |-> <<"a">>, userId |-> SeedOwner, createdAt |-> 0]}
    /\ suggestions = {}

\* no request has arrived
IdleButMessages ==
    /\ nextId = 1 /\ now = 1
    /\ req = [user |-> NoUser, id |-> SeedChat, modelKnown |-> FALSE, hasUserMessage |-> FALSE]
    /\ pc = "idle" /\ status = 0
    /\ channel = "none" /\ events = <<>> /\ userMessageId = ""
    /\ step = 0 /\ generating = FALSE /\ stepText = Empty /\ calls = <<>>
    /\ deltas = 0 /\ turnError = FALSE
    /\ batch = <<>> /\ saveCalls = 0
    /\ dreq = [user |-> NoUser, id |-> NoId] /\ dpc = "idle" /\ dstatus = 0 /\ dbody = ""
    /\ dbefore = <<>>
    /\ ddel = [id |-> "", timestamp |-> 0] /\ ddpc = "idle"
    /\ voting = [p \in Voters |-> NotVoting]
    /\ once = <<>> /\ twice = <<>> /\ passes = 0
    /\ apiKey = Empty /\ logged = <<>>
    /\ page = NoPage
    /\ trail = NoTrail
    /\ peer = NoPeer

Idle == IdleButMessages /\ responseMessages = <<>>

Init == SeedStore /\ Idle

Next ==
    \/ PostRequest
    \/ PostAuthenticate
    \/ PostValidate
    \/ PostGetChat
    \/ PostGenerateTitle
    \/ PostSaveChat
    \/ PostSaveUserMessage
    \/ PostOpenStream
    \/ ModelTextDelta
    \/ CallGetWeather
    \/ HandleCreateDocument
    \/ CallUpdateDocument
    \/ CallRequestSuggestions
    \/ ModelStepDone
    \/ StepFinish
    \/ \E i \in DOMAIN calls : HandleGetWeather(i)
    \/ \E i \in DOMAIN calls : HandleUpdateDocument(i)
    \/ \E i \in DOMAIN calls : HandleRequestSuggestions(i)
    \/ \E i \in DOMAIN calls : StreamDocumentContent(i)
    \/ \E i \in DOMAIN calls : StreamDocumentFinish(i)
    \/ \E i \in DOMAIN calls : DocumentSave(i)
    \/ \E i \in DOMAIN calls : SuggestionElement(i)
    \/ \E i \in DOMAIN calls : SuggestionsSave(i)
    \/ SaveResponseMessages
    \/ SaveMessages

Spec == Init /\ [][Next]_vars

\* ---- the turns in which the chat model calls requestSuggestions only, with
\* longer element streams
\* elements the suggestion streams of such a turn may deliver
MaxStreamed == 6

NextSuggestions ==
    \/ PostRequest
    \/ PostAuthenticate
    \/ PostValidate
    \/ PostGetChat
    \/ PostGenerateTitle
    \/ PostSaveChat
    \/ PostSaveUserMessage
    \/ PostOpenStream
    \/ CallRequestSuggestions
    \/ ModelStepDone
    \/ StepFinish
    \/ \E i \in DOMAIN calls : HandleRequestSuggestions(i)
    \/ \E i \in DOMAIN calls : SuggestionElementUpTo(i, MaxStreamed)
    \/ \E i \in DOMAIN calls : SuggestionsSave(i)
    \/ SaveResponseMessages
    \/ SaveMessages

SpecSuggestions == Init /\ [][NextSuggestions]_vars

\* ---- the turns in which the chat model calls createDocument and
\* updateDocument only, with longer content streams
\* deltas the content streams of such a turn may deliver
MaxContent == 3

NextContent ==
    \/ PostRequest
    \/ PostAuthenticate
    \/ PostValidate
    \/ PostGetChat
    \/ PostGenerateTitle
    \/ PostSaveChat
    \/ PostSaveUserMessage
    \/ PostOpenStream
    \/ HandleCreateDocument
    \/ CallUpdateDocument
    \/ ModelStepDone
    \/ StepFinish
    \/ \E i \in DOMAIN calls : HandleUpdateDocument(i)
    \/ \E i \in DOMAIN calls : StreamDocumentContentUpTo(i, MaxContent)
    \/ \E i \in DOMAIN calls : StreamDocumentFinish(i)
    \/ \E i \in DOMAIN calls : DocumentSave(i)
    \/ SaveResponseMessages
    \/ SaveMessages

SpecContent == Init /\ [][NextContent]_vars

\* ---- the turns in which the chat model calls updateDocument and
\* requestSuggestions only, beside a call of deleteDocumentsByIdAfterTimestamp
NextDocuments ==
    \/ PostRequest
    \/ PostAuthenticate
    \/ PostValidate
    \/ PostGetChat
    \/ PostGenerateTitle
    \/ PostSaveChat
    \/ PostSaveUserMessage
    \/ PostOpenStream
    \/ CallUpdateDocument
    \/ CallRequestSuggestions
    \/ ModelStepDone
    \/ StepFinish
    \/ \E i \in DOMAIN calls : HandleUpdateDocument(i)
    \/ \E i \in DOMAIN calls : HandleRequestSuggestions(i)
    \/ \E i \in DOMAIN calls : StreamDocumentContent(i)
    \/ \E i \in DOMAIN calls : StreamDocumentFinish(i)
    \/ \E i \in DOMAIN calls : DocumentSave(i)
    \/ \E i \in DOMAIN calls : SuggestionElement(i)
    \/ \E i \in DOMAIN calls : SuggestionsSave(i)
    \/ SaveResponseMessages
    \/ SaveMessages
    \/ DeleteDocumentsCall
    \/ DeleteDocumentSuggestions
    \/ DeleteDocumentRevisions

SpecDocuments == Init /\ [][NextDocuments]_vars

\* ---- the turns without tool calls, beside a DELETE request
NextTurnDelete ==
    \/ PostRequest
    \/ PostAuthenticate
    \/ PostValidate
    \/ PostGetChat
    \/ PostGenerateTitle
    \/ PostSaveChat
    \/ PostSaveUserMessage
    \/ PostOpenStream
    \/ ModelTextDelta
    \/ ModelStepDone
    \/ StepFinish
    \/ SaveResponseMessages
    \/ SaveMessages
    \/ DeleteRequest
    \/ DeleteAuthenticate
    \/ DeleteGetChat
    \/ DeleteVotes
    \/ DeleteMessages
    \/ DeleteChat

SpecTurnDelete == Init /\ [][NextTurnDelete]_vars

\* ---- the turns of the owner of the stored chat in which the chat model
\* calls getWeather as often as it likes; every handler that is started runs
\* on and every awaited promise settles
\* tool calls the chat model may make in such a turn
MaxLoopCalls == 6

NextSteps ==
    \/ PostRequest
    \/ PostAuthenticate
    \/ PostValidate
    \/ PostGetChat
    \/ PostGenerateTitle
    \/ PostSaveChat
    \/ PostSaveUserMessage
    \/ PostOpenStream
    \/ CallGetWeatherUpTo(MaxLoopCalls)
    \/ ModelStepDone
    \/ StepFinish
    \/ \E i \in DOMAIN calls : HandleGetWeather(i)
    \/ SaveResponseMessages
    \/ SaveMessages

SpecSteps == Init /\ [][NextSteps]_vars /\ WF_vars(NextSteps)

\* ---- createWrappedModel alone, over the secrets it may be given
\* characters a secret may have
MaxSecret == 6
Secrets == UNION {[1..n -> {"a", "b"}] : n \in 0..MaxSecret}

\* createWrappedModel is called with a secret and logs its status
CreateWrappedModel ==
    /\ logged = <<>>
    /\ \E key \in Secrets :
        /\ apiKey' = key
        /\ logged' = logModelStatus(key)
    /\ UNCHANGED <<store, ids, post, stream, saving, del, once, twice, passes, facade, aside>>

NextMask == CreateWrappedModel

SpecMask == Init /\ [][NextMask]_vars

\* ---- the turns without tool calls, beside a DELETE request and a call of
\* deleteTrailingMessages, over two chats with messages
MessageStores ==
    /\ chats = {[id |-> SeedChat, userId |-> "u1", visibility |-> "private", createdAt |-> 0],
                 [id |-> NewChat, userId |-> "u2", visibility |-> "public", createdAt |-> 0]}
    /\ messages = {[id |-> "m1", chatId |-> SeedChat, role |-> "user",
                     content |-> StringContent(<<"a">>), createdAt |-> -1],
                    [id |-> "m2", chatId |-> SeedChat, role |-> "assistant",
                     content |-> StringContent(<<"b">>), createdAt |-> 0],
                    [id |-> "m3", chatId |-> NewChat, role |-> "user",
                     content |-> StringContent(<<"a">>), createdAt |-> 0]}
    /\ votes = {}
    /\ documents = {}
    /\ suggestions = {}

InitMessages == MessageStores /\ Idle

NextMessages ==
    \/ PostRequest
    \/ PostAuthenticate
    \/ PostValidate
    \/ PostGetChat
    \/ PostGenerateTitle
    \/ PostSaveChat
    \/ PostSaveUserMessage
    \/ PostOpenStream
    \/ ModelStepDone
    \/ StepFinish
    \/ SaveResponseMessages
    \/ SaveMessages
    \/ DeleteRequest
    \/ DeleteAuthenticate
    \/ DeleteGetChat
    \/ DeleteVotes
    \/ DeleteMessages
    \/ DeleteChat
    \/ TrailCall
    \/ TrailGetMessage
    \/ TrailDelete

SpecMessages == InitMessages /\ [][NextMessages]_vars

\* ---- two POST requests up to the opening of their streams
NextTwoPosts ==
    \/ PostRequest
    \/ PostAuthenticate
    \/ PostValidate
    \/ PostGetChat
    \/ PostGenerateTitle
    \/ PostSaveChat
    \/ PostSaveUserMessage
    \/ PostOpenStream
    \/ PeerRequest
    \/ PeerGetChat
    \/ PeerGenerateTitle
    \/ PeerSaveChat
    \/ PeerSaveUserMessage

SpecTwoPosts == Init /\ [][NextTwoPosts]_vars

\* ---- voteMessage alone, called by two callers
\* two chats with a message each, and no vote or a vote on the first message
VoteStores ==
    /\ chats = {[id |-> SeedChat, userId |-> "u1", visibility |-> "private", createdAt |-> 0],
                 [id |-> NewChat, userId |-> "u2", visibility |-> "public", createdAt |-> 0]}
    /\ messages = {[id |-> "m1", chatId |-> SeedChat, role |-> "user",
                     content |-> StringContent(<<"a">>), createdAt |-> 0],
                    [id |-> "m2", chatId |-> NewChat, role |-> "user",
                     content |-> StringContent(<<"a">>), createdAt |-> 0]}
    /\ votes \in SUBSET {[chatId |-> SeedChat, messageId |-> "m1", isUpvoted |-> TRUE]}
    /\ documents = {}
    /\ suggestions = {}

InitVote == VoteStores /\ Idle

NextVote ==
    \/ \E p \in Voters : VoteCall(p)
    \/ \E p \in Voters : VoteSelect(p)
    \/ \E p \in Voters : VoteWrite(p)

SpecVote == InitVote /\ [][NextVote]_vars

\* ---- the chat page, beside changes of the visibility of the chats
NextPage ==
    \/ PageRequest
    \/ PageGetChat
    \/ PageAuthorize
    \/ PageGetMessages
    \/ UpdateChatVisibility

SpecPage == InitVote /\ [][NextPage]_vars

\* ---- DELETE alone, over the stores a request may find
\* the stored chats, their messages and the votes on them
DeleteStores ==
    /\ chats \in (SUBSET {[id |-> SeedChat, userId |-> "u1", visibility |-> "private",
                            createdAt |-> 0],
                           [id |-> NewChat, userId |-> "u2", visibility |-> "public",
                            createdAt |-> 0]}) \ {{}}
    /\ messages \in SUBSET {[id |-> m, chatId |-> c.id, role |-> "user",
                              content |-> StringContent(<<"a">>), createdAt |-> 0] :
                                m \in {"m1", "m2"}, c \in chats}
    /\ \A m1 \in messages, m2 \in messages : m1.id = m2.id => m1 = m2
    /\ votes \in SUBSET {[chatId |-> m.chatId, messageId |-> m.id, isUpvoted |-> TRUE] :
                            m \in messages}
    /\ documents = {}
    /\ suggestions = {}

InitDelete == DeleteStores /\ Idle

NextDelete ==
    \/ DeleteRequest
    \/ DeleteAuthenticate
    \/ DeleteGetChat
    \/ DeleteVotes
    \/ DeleteMessages
    \/ DeleteChat

SpecDelete == InitDelete /\ [][NextDelete]_vars

\* ---- sanitizeResponseMessages alone, over lists of response messages
\* messages a list may hold
MaxMessages == 2

Parts ==
    {TextPart(Empty), TextPart(<<"a">>), ToolCallPart(1), ToolCallPart(2),
     [type |-> "reasoning", text |-> <<"a">>, toolCallId |-> 0]}
PartLists == {<<>>} \cup {<<p>> : p \in Parts} \cup {<<p, q>> : p \in Parts, q \in Parts}
ResponseMessages ==
    {[role |-> "assistant", content |-> StringContent(text)] : text \in {Empty, <<"a">>}}
      \cup {[role |-> "assistant", content |-> PartsContent(parts)] : parts \in PartLists}
      \cup {[role |-> "tool", content |-> PartsContent(parts)] :
                parts \in {<<>>, <<ToolResultPart(1)>>}}
MessageLists == UNION {[1..n -> ResponseMessages] : n \in 0..MaxMessages}

InitSanitize ==
    /\ SeedStore
    /\ IdleButMessages
    /\ responseMessages \in MessageLists

\* sanitizeResponseMessages is applied to the list
SanitizeOnce ==
    /\ passes = 0
    /\ once' = sanitizeResponseMessages(responseMessages)
    /\ passes' = 1
    /\ UNCHANGED <<store, ids, post, stream, saving, del, twice, masking, facade, aside>>

\* sanitizeResponseMessages is applied to what it returned
SanitizeTwice ==
    /\ passes = 1
    /\ twice' = sanitizeResponseMessages(once)
    /\ passes' = 2
    /\ UNCHANGED <<store, ids, post, stream, saving, del, once, masking, facade, aside>>

NextSanitize == SanitizeOnce \/ SanitizeTwice

SpecSanitize == InitSanitize /\ [][NextSanitize]_vars

\* ------------------------------------------------------------ properties
\* the events a tool call wrote, in write order
EventsOf(i) == SelectSeq(events, LAMBDA e : e.call = i)
EventsOfType(types) == SelectSeq(events, LAMBDA e : e.type \in types)

\* the concatenation of a sequence of texts
RECURSIVE Concat(_)
Concat(texts) == IF texts = <<>> THEN Empty ELSE Head(texts) \o Concat(Tail(texts))
TextOf(evs) == Concat([k \in DOMAIN evs |-> evs[k].text])

\* the text of a message content: the string, or the text parts in order
ContentText(content) ==
    IF content.isString THEN content.text
    ELSE TextOf(SelectSeq(content.parts, LAMBDA part : part.type = "text"))

CreateCalls == {i \in DOMAIN calls : calls[i].name = "createDocument"}
DocumentCalls == {i \in DOMAIN calls : calls[i].name \in {"createDocument", "updateDocument"}}

\* the rows of the batch are stored
BatchStored == \A k \in DOMAIN batch : batch[k] \in messages
StoredAssistants == SelectSeq(batch, LAMBDA row : row.role = "assistant" /\ row \in messages)
\* the documents stored since the requests arrived
NewDocuments == {d \in documents : d.createdAt > 0}

\* C1: every createDocument invocation writes id, title, kind and clear (with
\* empty content) in this order before anything else it writes; what follows
\* are text-delta and code-delta events and a finish event, which is the last
\* event of the invocation and is written exactly when the content stream has
\* ended, with or without deltas.
C1_CreateDocumentEventOrder ==
    \A i \in CreateCalls :
        LET written == EventsOf(i)
            n == Len(written)
        IN  /\ n >= 4
            /\ SubSeq(written, 1, 4) =
                  <<Data("id", i, calls[i].docId, Empty), Data("title", i, "", calls[i].title),
                    Data("kind", i, calls[i].kind, Empty), Data("clear", i, "", Empty)>>
            /\ \A k \in 5..n : written[k].type \in {"text-delta", "code-delta", "finish"}
            /\ \A k \in 5..n : written[k].type = "finish" => k = n
            /\ (calls[i].pc # "stream") <=> (written[n].type = "finish")

\* a createDocument invocation has returned after a delta between clear and finish
C1_Witness ==
    \E i \in CreateCalls :
        /\ calls[i].pc = "done"
        /\ Len(EventsOf(i)) = 6
        /\ EventsOf(i)[5].type \in {"text-delta", "code-delta"}

C3_AnnouncedIsStoredOnce ==
    (pc = "closed" /\ ~turnError) =>
        /\ Cardinality(NewDocuments) = Len(EventsOfType({"finish"}))
        /\ \A k \in DOMAIN events :
              events[k].type = "finish" =>
                  \E d \in NewDocuments :
                      /\ d.id = calls[events[k].call].docId
                      /\ d.content = calls[events[k].call].draft
        /\ \A k \in DOMAIN events :
              events[k].type = "suggestion" =>
                  /\ Cardinality({s \in suggestions : s.id = events[k].value}) = 1
                  /\ \A s \in suggestions :
                        s.id = events[k].value =>
                            /\ s.originalText = events[k].text
                            /\ s.suggestedText = events[k].text2
        /\ \A k \in DOMAIN events :
              events[k].type = "annotation" =>
                  /\ Cardinality({m \in messages : m.id = events[k].value}) = 1
                  /\ \A m \in messages : m.id = events[k].value => m.role = "assistant"

\* a turn completed without error that announced a document revision and an
\* assistant message
C3_Witness ==
    /\ pc = "closed" /\ ~turnError
    /\ EventsOfType({"finish"}) # <<>>
    /\ EventsOfType({"annotation"}) # <<>>

\* C4: in the batch of response messages of a turn, stored or about to be,
\* every tool-call part of an assistant message has a tool-result part with
\* the same toolCallId in a tool message of the batch.
C4_NoOrphanedToolCall ==
    \A k \in DOMAIN batch :
        (batch[k].role = "assistant" /\ ~batch[k].content.isString) =>
            \A j \in DOMAIN batch[k].content.parts :
                batch[k].content.parts[j].type = "tool-call" =>
                    \E r \in DOMAIN batch :
                        /\ batch[r].role = "tool"
                        /\ \E q \in DOMAIN batch[r].content.parts :
                              /\ batch[r].content.parts[q].type = "tool-result"
                              /\ batch[r].content.parts[q].toolCallId =
                                    batch[k].content.parts[j].toolCallId

\* a stored batch with a tool-call part
C4_Witness ==
    /\ pc = "closed" /\ batch # <<>> /\ BatchStored
    /\ \E k \in DOMAIN batch :
          /\ batch[k].role = "assistant"
          /\ \E j \in DOMAIN batch[k].content.parts :
                batch[k].content.parts[j].type = "tool-call"

\* C5: sanitizeResponseMessages applied to its own result returns that result.
C5_SanitizeIdempotent == passes = 2 => twice = once

\* both applications are made, of a list the first one changed without
\* emptying it
C5_Witness ==
    /\ passes = 2
    /\ once # responseMessages
    /\ once # <<>>

\* C6: when an updateDocument invocation whose id names no stored document
\* gets the answer of its lookup, it returns the not-found result; the step
\* writes no event and leaves the stored documents as they are, and so does
\* the step of a lookup that raises.
C6_UpdateOfUnknownDocument ==
    [][\A i \in DOMAIN calls :
          (/\ calls[i].name = "updateDocument"
           /\ calls[i].pc = "start"
           /\ ~\E d \in documents : d.id = calls[i].docId
           /\ calls'[i] # calls[i])
          => /\ documents' = documents
             /\ events' = events
             /\ \/ calls'[i].pc = "done" /\ calls'[i].result = "not-found"
                \/ calls'[i].pc = "failed" /\ calls'[i].result = "Failed to get document by id"]_vars

\* an updateDocument invocation on an id of no stored document has returned
\* the not-found result
C6_Witness ==
    \E i \in DOMAIN calls :
        /\ calls[i].name = "updateDocument"
        /\ calls[i].result = "not-found"
        /\ ~\E d \in documents : d.id = calls[i].docId

\* the positions of POST before the stream is opened
BeforeStreaming ==
    {"idle", "authenticating", "validating", "loading-chat", "generating-title",
     "saving-chat", "saving-user-message"}

\* C7: a POST that fails before streaming is answered with a status and has
\* no channel and no event: 401 when it fails for want of a session, 404 for
\* a model that is not configured, 400 for want of a user message, 500 for
\* every other failure; a request without a session is refused by the
\* authentication step, whatever its model.
C7_FailureBeforeStreaming ==
    [][/\ (pc \in BeforeStreaming /\ pc' = "responded") =>
              /\ channel' = "none" /\ events' = <<>>
              /\ status' = CASE pc = "authenticating" -> 401
                             [] pc = "validating" -> IF req.modelKnown THEN 400 ELSE 404
                             [] OTHER -> 500
              /\ pc = "authenticating" => req.user = NoUser
              /\ pc = "validating" => ~req.modelKnown \/ ~req.hasUserMessage
       /\ (pc = "authenticating" /\ req.user = NoUser) => pc' = "responded"
       /\ pc = "responded" => pc' = "responded" /\ channel' = "none"]_vars

\* a request without a session and with an unknown model is answered 401
C7_Witness ==
    /\ pc = "responded" /\ status = 401
    /\ req.user = NoUser /\ ~req.modelKnown

\* the request names a chat, and the caller has no session or the chat is
\* stored and owned by another user
Refused(r) ==
    /\ r.id # NoId
    /\ \/ r.user = NoUser
       \/ \E c \in chats : c.id = r.id /\ c.userId # r.user

\* C8: while a DELETE of a caller without a session, or of a user who does not
\* own the named chat, is handled, nothing stored changes, and it is answered
\* 401 (500 when the lookup of the chat itself raised).
C8_RefusedDeleteChangesNothing ==
    [][Refused(dreq') =>
          /\ store' = store
          /\ dpc' = "responded" =>
                dstatus' = IF dbody' = "Failed to get chat by id" THEN 500 ELSE 401]_vars

\* a user with a session is refused the chat of another user, which has messages
C8_Witness ==
    /\ dpc = "responded" /\ dstatus = 401
    /\ dreq.user # NoUser
    /\ \E c \in chats : c.id = dreq.id /\ c.userId # dreq.user
    /\ getMessagesByChatId(dreq.id) # {}
    /\ getVotesByChatId(dreq.id) # {}

\* C9: once a DELETE is answered 200, no stored message and no stored vote
\* carries the chat id and no chat has it; no step of a DELETE changes the
\* chats, messages and votes of other chat ids.
C9_DeleteRemovesTheChatOnly ==
    [][/\ dstatus' = 200 =>
              /\ {m \in messages' : m.chatId = dreq'.id} = {}
              /\ {v \in votes' : v.chatId = dreq'.id} = {}
              /\ {c \in chats' : c.id = dreq'.id} = {}
       /\ {m \in messages' : m.chatId # dreq'.id} = {m \in messages : m.chatId # dreq'.id}
       /\ {v \in votes' : v.chatId # dreq'.id} = {v \in votes : v.chatId # dreq'.id}
       /\ {c \in chats' : c.id # dreq'.id} = {c \in chats : c.id # dreq'.id}]_vars

\* a DELETE is answered 200 and another chat is stored with a message and a vote
C9_Witness ==
    /\ dpc = "responded" /\ dstatus = 200
    /\ getChatById(dreq.id) = {}
    /\ chats # {} /\ messages # {} /\ votes # {}

\* C10: saveResponseMessages calls saveMessages once, when the turn
\* completes, with one row for each sanitized response message, in order; the
\* ids of the rows differ from each other and from the id of every message
\* stored before; the annotations written are, in order, one for each
\* assistant row, carrying the id of the row; and the rows are stored
\* together or, when the insert failed, not at all.
C10_OneBatchFreshIdsOneAnnotation ==
    /\ pc \notin {"saving-response", "closed"} =>
          saveCalls = 0 /\ EventsOfType({"annotation"}) = <<>>
    /\ pc \in {"saving-response", "closed"} =>
          LET sanitizedMessages == sanitizeResponseMessages(responseMessages)
              annotations == EventsOfType({"annotation"})
              assistants == SelectSeq(batch, LAMBDA row : row.role = "assistant")
          IN  /\ saveCalls = 1
              /\ Len(batch) = Len(sanitizedMessages)
              /\ \A k \in DOMAIN batch :
                    /\ batch[k].role = sanitizedMessages[k].role
                    /\ batch[k].content = sanitizedMessages[k].content
                    /\ batch[k].chatId = req.id
              /\ \A j \in DOMAIN batch, k \in DOMAIN batch : j # k => batch[j].id # batch[k].id
              /\ \A k \in DOMAIN batch : \A m \in messages : m.id = batch[k].id => m = batch[k]
              /\ Len(annotations) = Len(assistants)
              /\ \A k \in DOMAIN annotations : annotations[k].value = assistants[k].id
              /\ pc = "closed" =>
                    \/ BatchStored
                    \/ turnError /\ \A k \in DOMAIN batch : batch[k] \notin messages

\* a turn completed with an assistant message and a tool message stored
C10_Witness ==
    /\ pc = "closed" /\ BatchStored
    /\ Len(batch) = 2
    /\ batch[1].role = "assistant" /\ batch[2].role = "tool"

\* C11: whenever an annotation carrying the id m has been written, a message
\* with the id m is stored.
C11_AnnotationOnlyOncePersisted ==
    \A k \in DOMAIN events :
        events[k].type = "annotation" => \E m \in messages : m.id = events[k].value

\* s is a prefix of t
IsPrefix(s, t) == Len(s) <= Len(t) /\ SubSeq(t, 1, Len(s)) = s

\* C12: when the insert of the response batch fails, the error is raised, no
\* row of the batch is stored, and the step writes no event; no step of a turn
\* removes or changes an event written before it.
C12_FailedSaveRaisesAndRetractsNothing ==
    [][/\ (pc = "saving-response" /\ pc' = "closed" /\ (batch = <<>> \/ ~BatchStored')) =>
              /\ turnError'
              /\ \A k \in DOMAIN batch : batch[k] \notin messages'
              /\ events' = events
       /\ IsPrefix(events, events')]_vars

\* the insert of a batch has failed after the annotations and other events
\* were written
C12_Witness ==
    /\ pc = "closed" /\ turnError
    /\ batch # <<>> /\ \A k \in DOMAIN batch : batch[k] \notin messages
    /\ EventsOfType({"annotation"}) # <<>>
    /\ EventsOfType({"text"}) # <<>>

\* C13: every step that writes an event leaves the channel open, a closed
\* channel stays closed, and an open channel is never unopened.
C13_NoEventAfterClose ==
    [][/\ events' # events => channel' = "open"
       /\ channel = "closed" => channel' = "closed"
       /\ channel = "open" => channel' \in {"open", "closed"}]_vars

\* the channel of a turn is closed after a tool and the completion step wrote to it
C13_Witness ==
    /\ channel = "closed"
    /\ EventsOfType({"annotation"}) # <<>>
    /\ \E k \in DOMAIN events : events[k].call # 0

UpdateCalls == {i \in DOMAIN calls : calls[i].name = "updateDocument"}
\* the lookup of the call found its document
Found(i) == calls[i].pc \in {"stream", "save"} \/ calls[i].result \in {"ok", "Failed to save document"}

\* C14 as stated: every updateDocument invocation on an existing document
\* writes an id, the title, the kind and a clear carrying the prior title, in
\* this order, before anything else.
C14_UpdateWritesIdTitleKindClear ==
    \A i \in UpdateCalls :
        Found(i) =>
            LET written == EventsOf(i)
            IN  /\ Len(written) >= 4
                /\ written[1].type = "id"
                /\ written[2].type = "title" /\ written[2].text = calls[i].title
                /\ written[3].type = "kind" /\ written[3].value = calls[i].kind
                /\ written[4].type = "clear" /\ written[4].text = calls[i].title

\* C14: every updateDocument invocation on an existing document writes, before
\* anything else, one clear event carrying the title of the stored document;
\* it writes no id, title or kind event, and after the clear only deltas and
\* the finish.
C14_UpdateWritesClearWithPriorTitle ==
    \A i \in UpdateCalls :
        LET written == EventsOf(i)
        IN  /\ Found(i) <=> written # <<>>
            /\ written # <<>> =>
                  /\ written[1].type = "clear"
                  /\ \E d \in documents : d.id = calls[i].docId /\ d.title = written[1].text
            /\ \A k \in DOMAIN written :
                  k > 1 => written[k].type \in {"text-delta", "code-delta", "finish"}

\* an updateDocument invocation on a stored document has returned after a delta
C14_Witness ==
    \E i \in UpdateCalls :
        /\ calls[i].result = "ok"
        /\ Len(EventsOf(i)) = 3
        /\ EventsOf(i)[1].text = SeedTitle

\* C19: the step in which an updateDocument invocation stores its revision
\* adds exactly one document row, with the id of the invocation and its
\* content; every row stored before is still stored; and the lookup of the id
\* now returns the new row.
C19_UpdateAddsOneRevision ==
    [][\A i \in UpdateCalls :
          (i \in DOMAIN calls' /\ calls[i].pc = "save" /\ calls'[i].result = "ok") =>
              \E d \in documents' :
                  /\ d \notin documents
                  /\ documents' = documents \cup {d}
                  /\ d.id = calls[i].docId /\ d.content = calls[i].draft
                  /\ {e \in documents' : e.id = d.id /\
                        \A f \in documents' : f.id = d.id => f.createdAt <= e.createdAt} = {d}]_vars

\* an updateDocument invocation has stored a second revision of its document,
\* with another content
C19_Witness ==
    \E i \in UpdateCalls :
        /\ calls[i].result = "ok"
        /\ Cardinality({d \in documents : d.id = calls[i].docId}) = 2
        /\ \E d \in documents : d.id = calls[i].docId /\ d.content # calls[i].draft

\* the number of suggestions the prompt of handleRequestSuggestions asks for
MaxSuggestions == 5

SuggestionCalls == {i \in DOMAIN calls : calls[i].name = "requestSuggestions"}
SuggestionEventsOf(i) == SelectSeq(EventsOf(i), LAMBDA e : e.type = "suggestion")

\* C20: every requestSuggestions invocation writes at most 5 suggestion events
\* and stores at most 5 suggestions, however many elements its stream
\* delivers; one that returns not-found writes and stores none.
C20_AtMostFiveSuggestions ==
    \A i \in SuggestionCalls :
        LET written == SuggestionEventsOf(i)
            stored == {s \in suggestions : \E k \in DOMAIN written : written[k].value = s.id}
        IN  /\ Len(written) <= MaxSuggestions
            /\ Cardinality(stored) <= MaxSuggestions
            /\ calls[i].result = "not-found" => written = <<>> /\ stored = {}

\* C15: when deleteChatById has failed, the chats, messages and votes are
\* those stored when it was called.
C15_FailedDeleteChangesNothing ==
    dbody = "Failed to delete chat by id" => <<chats, messages, votes>> = dbefore

C21_TurnTerminatesWithinFiveSteps ==
    /\ [](step <= 5)
    /\ [][/\ pc \in {"finishing", "saving-response", "closed"} =>
                calls' = calls /\ step' = step /\ responseMessages' = responseMessages
          /\ saveCalls' \in {saveCalls, saveCalls + 1}
          /\ saveCalls' <= 1]_vars
    /\ [](pc = "closed" => saveCalls = 1)
    /\ (pc = "streaming" ~> pc = "closed")

\* a turn has ended after five steps, the fifth of which made a tool call
\* that returned its result
C21_Witness ==
    /\ pc = "closed" /\ saveCalls = 1
    /\ step = 5
    /\ \E i \in DOMAIN calls : calls[i].step = 5 /\ calls[i].pc = "done"

\* text s occurs in text t
Occurs(s, t) == \E k \in 0..(Len(t) - Len(s)) : SubSeq(t, k + 1, k + Len(s)) = s

\* C22: the text logged for a non-empty secret is the label, the first 4
\* characters of the secret, three dots and its last 4 characters, and the
\* secret does not occur in it.
C22_LoggedTextHidesTheSecret ==
    (logged # <<>> /\ apiKey # Empty) =>
        /\ logged = <<"API Key (masked):", " ">> \o SliceFirst4(apiKey) \o <<".", ".", ".">>
                        \o SliceLast4(apiKey)
        /\ ~Occurs(apiKey, logged)

\* C23: when the page has read a chat whose visibility is private and the
\* visitor has no session or is not the owner of the chat, the page does not
\* call getMessagesByChatId and shows no message, and its answer is not-found.
C23_PrivateChatOnlyForOwner ==
    \A chat \in page.chat :
        (chat.visibility = "private" /\ page.user # chat.userId) =>
            /\ ~page.fetched
            /\ page.shown = {}
            /\ page.pc \in {"authorizing", "responded"}
            /\ page.pc = "responded" => page.result = "not-found"

\* a user with a session has been refused the private chat of another user,
\* which has messages
C23_Witness ==
    /\ page.pc = "responded" /\ page.result = "not-found"
    /\ page.user \in Users
    /\ \E chat \in page.chat : chat.visibility = "private" /\ chat.userId # page.user
    /\ getMessagesByChatId(page.id) # {}

\* the positions in the events of a call of its clear and its finish (the
\* end of the events when finish is not written yet)
ClearAt(written) == CHOOSE k \in DOMAIN written : written[k].type = "clear"
FinishAt(written) ==
    IF \E k \in DOMAIN written : written[k].type = "finish"
    THEN CHOOSE k \in DOMAIN written : written[k].type = "finish"
    ELSE Len(written) + 1
DeltasOf(i, type) == SelectSeq(EventsOf(i), LAMBDA e : e.type = type)

\* C24: for every createDocument or updateDocument invocation on a text
\* document, the text-delta events it wrote all lie between its clear and its
\* finish, the k-th of them carries the k-th text fragment its stream
\* delivered, the accumulator is their concatenation in write order, whatever
\* other parts the stream delivered, and the revision the invocation stored
\* has that content.
C24_TextContentIsConcatenationOfDeltas ==
    \A i \in DocumentCalls :
        (calls[i].kind = "text" /\ EventsOf(i) # <<>>) =>
            LET written == EventsOf(i)
                deltasWritten == DeltasOf(i, "text-delta")
            IN  /\ \A k \in DOMAIN written :
                      written[k].type = "text-delta" =>
                          ClearAt(written) < k /\ k < FinishAt(written)
                /\ \A k \in DOMAIN deltasWritten : deltasWritten[k].text = Fragment(k)
                /\ DeltasOf(i, "code-delta") = <<>>
                /\ calls[i].draft = TextOf(deltasWritten)
                /\ calls[i].result = "ok" =>
                      \E d \in NewDocuments :
                          d.id = calls[i].docId /\ d.content = TextOf(deltasWritten)

\* a text document has been stored with the content of three deltas
C24_Witness ==
    \E i \in DocumentCalls :
        /\ calls[i].kind = "text" /\ calls[i].result = "ok"
        /\ Len(DeltasOf(i, "text-delta")) = 3
        /\ \E d \in NewDocuments : d.id = calls[i].docId /\ Len(d.content) = 3

\* C25: for every invocation on a code document, each value of the code field
\* its stream delivered is written as one code-delta event carrying the whole
\* value (the k-th event the code grown to k characters), and the accumulator
\* and the content of the revision the invocation stored are the value of the
\* last code-delta written (empty when none was written).
C25_CodeContentIsLatestValue ==
    \A i \in DocumentCalls :
        (calls[i].kind = "code" /\ EventsOf(i) # <<>>) =>
            LET deltasWritten == DeltasOf(i, "code-delta")
                latest == IF deltasWritten = <<>> THEN Empty
                          ELSE deltasWritten[Len(deltasWritten)].text
            IN  /\ Len(deltasWritten) = calls[i].parts
                /\ \A k \in DOMAIN deltasWritten : deltasWritten[k].text = Code(k)
                /\ DeltasOf(i, "text-delta") = <<>>
                /\ calls[i].draft = latest
                /\ calls[i].result = "ok" =>
                      \E d \in NewDocuments : d.id = calls[i].docId /\ d.content = latest

\* a code document has been stored after three values of its code
C25_Witness ==
    \E i \in DocumentCalls :
        /\ calls[i].kind = "code" /\ calls[i].result = "ok"
        /\ Len(DeltasOf(i, "code-delta")) = 3
        /\ \E d \in NewDocuments : d.id = calls[i].docId /\ d.content = Code(3)

\* the user messages stored since the requests arrived
NewUserMessages == {m \in messages : m.role = "user" /\ m.createdAt > 0}

\* C26: the step that opens the channel finds the user message of the turn
\* stored, once, under the id the turn holds, and writes the user-message-id
\* event with that id as the first event; in every turn that has reached
\* streaming the turn has stored that one user message, the first event is the
\* user-message-id with its id, and no other event is one.
C26_UserMessageStoredThenAnnounced ==
    [][/\ (channel = "none" /\ channel' # "none") =>
              /\ Cardinality({m \in messages : m.id = userMessageId}) = 1
              /\ events = <<>>
              /\ events' = <<Data("user-message-id", 0, userMessageId, Empty)>>
       /\ channel' # "none" =>
              /\ NewUserMessages' = {m \in messages' : m.id = userMessageId'}
              /\ Cardinality(NewUserMessages') = 1
              /\ \A m \in NewUserMessages' : m.chatId = req'.id
              /\ events' # <<>>
              /\ events'[1] = Data("user-message-id", 0, userMessageId', Empty)
              /\ \A k \in DOMAIN events' : k > 1 => events'[k].type # "user-message-id"]_vars

\* a turn has ended after a tool and the completion step wrote their events
C26_Witness ==
    /\ channel = "closed"
    /\ events[1].type = "user-message-id"
    /\ \E k \in DOMAIN events : events[k].call # 0
    /\ \E k \in DOMAIN events : events[k].type = "annotation"

\* the messages a returned call of deleteTrailingMessages was to delete
TrailRange(m) ==
    /\ trail.pc = "returned"
    /\ \E message \in trail.message :
          m.chatId = message.chatId /\ m.createdAt >= message.createdAt

\* C27: no step changes a stored message (a message stored under the id of
\* one stored before is that one); a step that removes messages is either the
\* delete of deleteTrailingMessages, which removes exactly the messages of the
\* chat of the message it read that were created at or after it, or the
\* delete of the messages of the chat a DELETE request names; and in the step
\* that answers the DELETE request, a message that it found stored and that is
\* stored no longer was to be deleted by deleteTrailingMessages, or its chat
\* is deleted.
C27_MessagesImmutableAndLeaveWithChat ==
    [][/\ \A m \in messages, n \in messages' : n.id = m.id => n = m
       /\ messages \ messages' # {} =>
              \/ /\ trail.pc = "deleting" /\ trail'.pc = "returned"
                 /\ \E message \in trail.message :
                       messages \ messages' =
                           {m \in messages : m.chatId = message.chatId
                                               /\ m.createdAt >= message.createdAt}
              \/ /\ dpc = "deleting-messages"
                 /\ \A m \in messages \ messages' : m.chatId = dreq.id
       /\ (dpc # "responded" /\ dpc' = "responded" /\ dbefore' # <<>>) =>
              \A m \in dbefore'[2] \ messages' :
                  \/ TrailRange(m)'
                  \/ ~\E c \in chats' : c.id = m.chatId]_vars

\* C28: every message a POST turn has stored (the user message, the response
\* messages) is stored under the id of a chat that is owned by the caller of
\* the turn.
C28_TurnStoresOnlyInOwnChat ==
    \A m \in messages :
        m.createdAt > 0 =>
            \A c \in chats : c.id = m.chatId => c.userId = req.user

\* C29: when a POST has been answered without a channel (it failed before the
\* stream was opened), the chats and the messages stored are those stored
\* before the request, which are the only ones stored when requests arrive.
C29_FailedTurnLeavesStorage ==
    (pc = "responded" /\ channel = "none") => SeedStore

\* C30: of two POST requests that carry the id of a chat that was not stored,
\* whenever one makes its saveChat call no chat has the id yet, so that the
\* insert does not fail on the chat the other created; at most one chat has
\* the id; and when both requests have saved their user messages, both
\* messages are stored under the id.
C30_ConcurrentTurnsCreateChatOnce ==
    [][/\ (pc = "saving-chat" /\ pc' # "saving-chat") => ChatIdFree(req.id)
       /\ (peer.pc = "saving-chat" /\ peer'.pc # "saving-chat") => ChatIdFree(peer.id)
       /\ \A c \in chats', d \in chats' : c.id = d.id => c = d
       /\ (req'.id = peer'.id /\ pc' \in {"opening", "streaming"} /\ peer'.pc = "opening") =>
              /\ userMessageId' # peer'.userMessageId
              /\ \E m \in messages' : m.id = userMessageId' /\ m.chatId = req'.id
              /\ \E m \in messages' : m.id = peer'.userMessageId /\ m.chatId = req'.id]_vars

====
